---------------------------- MODULE Spec2Model ----------------------------
(***************************************************************************)
(* The ANN index wrapper of native/vector_math/src/hnsw.rs: one HnswIndex  *)
(* handle shared by a pool of callers.  Every NIF is split at the points   *)
(* where another caller can interleave: the entry (argument checks), the   *)
(* acquisition of the index RwLock, the engine calls made under the guard, *)
(* and the return, where the guards are dropped.                           *)
(* A second specification uses the handle with vectors that differ and     *)
(* makes new handles from the saved file.  The vector NIFs of lib.rs       *)
(* (similarity, top-k, quantization, sign bits) share no state: each has   *)
(* a specification in which one call is made on arguments of every shape.  *)
(***************************************************************************)
EXTENDS Integers, Sequences, FiniteSets, TLC

\* ------------------------------------------------------------------ bounds
NProcs == 3          \* concurrent callers of the handle
MaxCalls == 3        \* NIF calls started in one behaviour
MaxKey == 2          \* keys are 1..MaxKey
MaxBatch == 2        \* longest entry list given to hnsw_add_batch
MaxK == 1            \* largest k given to hnsw_search
MaxCap == 1          \* largest capacity given to hnsw_reserve
Dim == 2             \* the dimensions argument of hnsw_new
MaxHits == 2         \* largest k given to hnsw_search over stored points
MaxDim == 2          \* longest vector given to the vector NIFs
MaxCorpus == 3       \* longest corpus given to the batch and top-k NIFs
MaxTop == 4          \* largest k given to the top-k NIFs
MaxQuant == 3        \* longest vector given to quantize_int8
MaxFloat == 7        \* largest element of a vector given to quantize_int8
MaxBits == 9         \* longest vector given to to_binary and int8_to_binary
F32Max == 3          \* largest finite f32 of the model (f32::MAX)

Procs == 1..NProcs
Keys == 1..MaxKey
MaxLen == Dim + 1
\* Binaries handed in as vectors: every length around the index dimension.
Vectors == UNION {[1..n -> {1}] : n \in (Dim - 1)..MaxLen}
Entries == Keys \X Vectors
Batches == UNION {[1..n -> Entries] : n \in 0..MaxBatch}
\* Vectors of the index dimension that lie at different distances.
Points == [1..Dim -> 0..1]

Max(a, b) == IF a >= b THEN a ELSE b
Min(a, b) == IF a <= b THEN a ELSE b

VARIABLES
    dimensions,      \* HnswIndex.dimensions
    idx,             \* the usearch Index inside HnswIndex.index
    index_lock,      \* the RwLock around it: who holds it, and the poison flag
    is_built,        \* the value inside HnswIndex.is_built
    built_lock,      \* the RwLock around is_built
    disk,            \* the file written by save
    pc,              \* where each caller is in its NIF
    op,              \* the NIF a caller runs and its arguments
    loc,             \* the locals of the running NIF
    calls,           \* NIF calls started so far
    returned,        \* the successful mutations reported to callers, in order
    loaded,          \* the handle made by the last hnsw_load or hnsw_view
    nif,             \* the last vector NIF called, with its arguments
    ret              \* the term it returned

\* What the NIFs of the handle leave alone.
elsewhere == <<loaded, nif, ret>>

\* What the vector NIFs of lib.rs leave alone: they take no handle.
handles == <<dimensions, idx, index_lock, is_built, built_lock, disk, pc, op,
             loc, calls, returned, loaded>>

vars == <<dimensions, idx, index_lock, is_built, built_lock, disk, pc, op,
          loc, calls, returned, elsewhere>>


\* ------------------------------------------------------- terms and calls
\* The term a NIF returns: {:ok, _}, {:error, _}, or a raised error term.
Term(tag, what, n, list) == [tag |-> tag, what |-> what, n |-> n, list |-> list]
NoTerm == Term("none", "none", 0, <<>>)
OkOk == Term("ok", "ok", 0, <<>>)
OkCount(n) == Term("ok", "count", n, <<>>)
OkBool(b) == Term("ok", "bool", IF b THEN 1 ELSE 0, <<>>)
OkList(l) == Term("ok", "list", 0, l)
OkStats(l) == Term("ok", "stats", 0, l)
ErrorTerm(what) == Term("error", what, 0, <<>>)
DimensionMismatch == ErrorTerm("dimension_mismatch")
LockPoisoned == Term("raise", "lock poisoned", 0, <<>>)

Call(kind, key, vector, entries, k, capacity) ==
    [kind |-> kind, key |-> key, vector |-> vector, entries |-> entries,
     k |-> k, capacity |-> capacity]
NoCall == Call("none", 0, <<>>, <<>>, 0, 0)

\* The locals of a NIF: the term it is about to return, the position of its
\* loop, the count `added` of hnsw_add_batch and the stats read so far; and,
\* kept for the claims, the keys the batch has handed to the engine with the
\* engine's answer (tried) and the size of the index when the guard was taken.
NoLocals == [result |-> NoTerm, i |-> 0, added |-> 0, tried |-> <<>>,
             size0 |-> 0, snap |-> <<>>]

\* ------------------------------------------------------- the usearch Index
\* What the wrapper relies on of the engine it calls.  Each call yields a set
\* of outcomes [ok, ix]: the engine may refuse any call (the Err arms), and a
\* call that succeeds has the effect the tests of hnsw.rs expect of it.
EmptyIndex == [vecs |-> <<>>, tomb |-> {}, cap |-> 0]

Live(ix) == DOMAIN ix.vecs

idx_size(ix) == Cardinality(Live(ix))

idx_capacity(ix) == ix.cap

idx_memory_usage(ix) == ix.cap + idx_size(ix)

idx_reserve(ix, capacity) ==
    {[ok |-> FALSE, ix |-> ix],
     [ok |-> TRUE, ix |-> [ix EXCEPT !.cap = Max(ix.cap, capacity)]]}

\* multi: false, a single vector per key: a key that is live is refused.
idx_add(ix, key, vector) ==
    {[ok |-> FALSE, ix |-> ix]} \cup
    (IF key \in Live(ix)
     THEN {}
     ELSE {[ok |-> TRUE,
            ix |-> [vecs |-> [q \in Live(ix) \cup {key} |->
                                IF q = key THEN vector ELSE ix.vecs[q]],
                    tomb |-> ix.tomb \ {key},
                    cap |-> Max(ix.cap, idx_size(ix) + 1)]]})

\* A removed key is marked deleted; contains may still report it.
idx_contains(ix, key) ==
    IF key \in Live(ix) THEN {TRUE}
    ELSE IF key \in ix.tomb THEN {TRUE, FALSE}
    ELSE {FALSE}

idx_remove(ix, key) ==
    {[ok |-> FALSE, ix |-> ix]} \cup
    (IF key \in Live(ix)
     THEN {[ok |-> TRUE,
            ix |-> [vecs |-> [q \in Live(ix) \ {key} |-> ix.vecs[q]],
                    tomb |-> ix.tomb \cup {key},
                    cap |-> ix.cap]]}
     ELSE {[ok |-> TRUE, ix |-> ix]})

RECURSIVE Dot(_, _)
Dot(a, b) == IF a = <<>> \/ b = <<>> THEN 0
             ELSE Head(a) * Head(b) + Dot(Tail(a), Tail(b))

\* MetricKind::IP: the distance is 1 - <a, b>.
Distance(a, b) == 1 - Dot(a, b)

\* The matches of a search: min(k, size) distinct live keys with their
\* distances, closest first; which keys is the engine's (approximate) choice.
idx_search(ix, query, k) ==
    LET m == Min(k, idx_size(ix))
        hits == {s \in [1..m -> Live(ix)] :
                    /\ \A a, b \in 1..m : a # b => s[a] # s[b]
                    /\ \A a, b \in 1..m :
                          a < b => Distance(query, ix.vecs[s[a]])
                                      <= Distance(query, ix.vecs[s[b]])}
    IN  {[ok |-> FALSE, keys |-> <<>>, distances |-> <<>>]} \cup
        {[ok |-> TRUE, keys |-> s,
          distances |-> [a \in 1..m |-> Distance(query, ix.vecs[s[a]])]] :
            s \in hits}

NoFile == [exists |-> FALSE, dimensions |-> 0, ix |-> EmptyIndex]

idx_save(ix, dims, file) ==
    {[ok |-> FALSE, file |-> file],
     [ok |-> TRUE, file |-> [exists |-> TRUE, dimensions |-> dims, ix |-> ix]]}

\* Index::load into a fresh index: the header of the file replaces the
\* options the index was made with, and the stored vectors are read back.
\* Whether the marks of removed keys and the spare capacity are kept is the
\* engine's business.
idx_load(file) ==
    {[ok |-> FALSE, dimensions |-> 0, ix |-> EmptyIndex]} \cup
    (IF file.exists
     THEN {[ok |-> TRUE, dimensions |-> file.dimensions,
            ix |-> [vecs |-> file.ix.vecs, tomb |-> t, cap |-> c]] :
              t \in {file.ix.tomb, {}},
              c \in {file.ix.cap, idx_size(file.ix)}}
     ELSE {})

\* ------------------------------------------------------- std::sync::RwLock
Unlocked == [writers |-> {}, readers |-> {}, poisoned |-> FALSE]

Holds(l, p) == p \in l.writers \cup l.readers

\* A lock whose poison is recovered from instead of reported.
is_poisoned_ignored(l) == FALSE

\* read() and write() return Err(PoisonError) on a poisoned lock.
is_poisoned(l) == l.poisoned

\* A write() that overlooks the readers.
write_available_ignoring_readers(l) == l.writers = {}

\* write() returns once nobody holds the lock.
write_available(l) == l.writers = {} /\ l.readers = {}

\* A read() that also waits for the other readers.
read_available_exclusive(l, waiting) ==
    l.writers = {} /\ l.readers = {} /\ waiting = {}

\* read() is sure to return once no writer holds the lock and none waits for
\* it.  Whether a reader passes a writer that waits is left to the platform
\* ("this type does not guarantee that any particular policy will be used").
read_available(l, waiting) == l.writers = {} /\ waiting = {}

read_may_pass(l, waiting) == l.writers = {} /\ waiting # {}

\* Dropping a guard; a write guard dropped by a panic poisons the lock.
Dropped(l, p, panicking) ==
    [writers |-> l.writers \ {p},
     readers |-> l.readers \ {p},
     poisoned |-> l.poisoned \/ (panicking /\ p \in l.writers)]

\* An addBatch that asks for shared access.
LockMode_batch_shared(kind) ==
    CASE kind \in {"reserve", "add", "remove"} -> "write"
      [] kind \in {"add_batch", "search", "size", "capacity", "contains",
                   "save", "stats"} -> "read"
      [] OTHER -> "none"

\* The access each NIF asks of HnswIndex.index.
LockMode(kind) ==
    CASE kind \in {"reserve", "add", "add_batch", "remove"} -> "write"
      [] kind \in {"search", "size", "capacity", "contains", "save", "stats"} -> "read"
      [] OTHER -> "none"


\* The writers blocked in write().
Waiting ==
    {q \in Procs : /\ pc[q] = "lock"
                   /\ LockMode(op[q].kind) = "write"
                   /\ ~write_available(index_lock)}

\* ------------------------------------------------------- state
\* A handle made from a file: ResourceArc::new(HnswIndex {..}).
NoHandle == [made |-> "none", dimensions |-> 0, index |-> EmptyIndex,
             is_built |-> FALSE]

\* A vector NIF and its arguments; `order` is the order in which the
\* parallel workers got their items done.
Nif(name, a, b, corpus, k, order) ==
    [name |-> name, a |-> a, b |-> b, corpus |-> corpus, k |-> k,
     order |-> order]
NoNif == Nif("none", <<>>, <<>>, <<>>, 0, <<>>)

Init ==
    /\ dimensions = Dim
    /\ idx = EmptyIndex
    /\ index_lock = Unlocked
    /\ is_built = FALSE
    /\ built_lock = Unlocked
    /\ disk = NoFile
    /\ pc = [p \in Procs |-> "idle"]
    /\ op = [p \in Procs |-> NoCall]
    /\ loc = [p \in Procs |-> NoLocals]
    /\ calls = 0
    /\ returned = <<>>
    /\ loaded = NoHandle
    /\ nif = NoNif
    /\ ret = NoTerm

\* A caller enters a NIF.  `early` is the term of a return made before the
\* index lock is asked for, NoTerm when the NIF goes on to the lock.  The
\* arguments are kept for as long as the NIF still reads them: a NIF that
\* returns at once keeps only its term.
Enter(p, call, early) ==
    /\ pc[p] = "idle"
    /\ calls < MaxCalls
    /\ calls' = calls + 1
    /\ op' = [op EXCEPT ![p] =
                IF early # NoTerm
                THEN Call(call.kind, 0, <<>>, <<>>, 0, 0)
                ELSE call]
    /\ loc' = [loc EXCEPT ![p] = [NoLocals EXCEPT !.result = early]]
    /\ pc' = [pc EXCEPT ![p] = IF early # NoTerm THEN "ret" ELSE "lock"]
    /\ UNCHANGED <<dimensions, idx, index_lock, is_built, built_lock,
                   disk, returned,
                   elsewhere>>

\* The engine call of a NIF is done: its term is ready, the guard still held.
Finish(p, term) ==
    /\ loc' = [loc EXCEPT ![p].result = term]
    /\ pc' = [pc EXCEPT ![p] = "ret"]

\* ------------------------------------------------------- entries of the NIFs
\* A check that refuses only the vectors that are too short.
hnsw_add_check_short_only(vector) ==
    IF Len(vector) < dimensions THEN DimensionMismatch ELSE NoTerm

\* A check that refuses only the vectors that are too long.
hnsw_add_check_long_only(vector) ==
    IF Len(vector) > dimensions THEN DimensionMismatch ELSE NoTerm

hnsw_add_check(vector) ==
    IF Len(vector) # dimensions THEN DimensionMismatch ELSE NoTerm

\* A validation that looks at the first entry only.
hnsw_add_batch_check_first(entries) ==
    IF entries = <<>> THEN OkCount(0)
    ELSE IF Len(entries[1][2]) # dimensions THEN DimensionMismatch
         ELSE NoTerm

\* No validation ahead of the insertions.
hnsw_add_batch_check_none(entries) ==
    IF entries = <<>> THEN OkCount(0) ELSE NoTerm

hnsw_add_batch_check(entries) ==
    IF entries = <<>> THEN OkCount(0)
    ELSE IF \E e \in 1..Len(entries) : Len(entries[e][2]) # dimensions
         THEN DimensionMismatch
         ELSE NoTerm

\* The length of the query is left to be looked at under the guard.
hnsw_search_check_late(query) == NoTerm

hnsw_search_check(query) ==
    IF Len(query) # dimensions THEN DimensionMismatch ELSE NoTerm

hnsw_dimensions_term == Term("ok", "dimensions", dimensions, <<>>)

hnsw_reserve_call(p, capacity) ==
    Enter(p, Call("reserve", 0, <<>>, <<>>, 0, capacity), NoTerm)

hnsw_add_call(p, key, vector) ==
    Enter(p, Call("add", key, vector, <<>>, 0, 0), hnsw_add_check(vector))

hnsw_add_batch_call(p, entries) ==
    Enter(p, Call("add_batch", 0, <<>>, entries, 0, 0),
          hnsw_add_batch_check(entries))

hnsw_search_call(p, query, k) ==
    Enter(p, Call("search", 0, query, <<>>, k, 0), hnsw_search_check(query))

hnsw_contains_call(p, key) ==
    Enter(p, Call("contains", key, <<>>, <<>>, 0, 0), NoTerm)

hnsw_remove_call(p, key) ==
    Enter(p, Call("remove", key, <<>>, <<>>, 0, 0), NoTerm)

hnsw_reserve(p) == \E capacity \in 1..MaxCap : hnsw_reserve_call(p, capacity)

hnsw_add(p) == \E key \in Keys, vector \in Vectors : hnsw_add_call(p, key, vector)

hnsw_add_batch(p) == \E entries \in Batches : hnsw_add_batch_call(p, entries)

hnsw_search(p) ==
    \E query \in Vectors, k \in 0..MaxK : hnsw_search_call(p, query, k)

hnsw_size(p) == Enter(p, Call("size", 0, <<>>, <<>>, 0, 0), NoTerm)

hnsw_capacity(p) == Enter(p, Call("capacity", 0, <<>>, <<>>, 0, 0), NoTerm)

\* No lock is taken: the field is read and returned.
hnsw_dimensions(p) ==
    Enter(p, Call("dimensions", 0, <<>>, <<>>, 0, 0), hnsw_dimensions_term)

hnsw_contains(p) == \E key \in Keys : hnsw_contains_call(p, key)

hnsw_remove(p) == \E key \in Keys : hnsw_remove_call(p, key)

hnsw_save(p) == Enter(p, Call("save", 0, <<>>, <<>>, 0, 0), NoTerm)

hnsw_stats(p) == Enter(p, Call("stats", 0, <<>>, <<>>, 0, 0), NoTerm)

\* ------------------------------------------------------- the index lock
\* index.index.write().map_err(..)?: the guard of a poisoned lock is dropped
\* with the PoisonError and the NIF raises.
index_write(p) ==
    /\ pc[p] = "lock"
    /\ LockMode(op[p].kind) = "write"
    /\ write_available(index_lock)
    /\ IF is_poisoned(index_lock)
       THEN /\ Finish(p, LockPoisoned)
            /\ UNCHANGED index_lock
       ELSE /\ index_lock' = [index_lock EXCEPT !.writers = @ \cup {p}]
            /\ pc' = [pc EXCEPT ![p] = "body"]
            /\ loc' = [loc EXCEPT ![p].size0 = idx_size(idx), ![p].i = 1]
    /\ UNCHANGED <<dimensions, idx, is_built, built_lock, disk,
                   op, calls, returned,
                   elsewhere>>

\* A reader that goes on without a guard.
ReadLocked_without_guard(p) ==
    /\ pc' = [pc EXCEPT ![p] = "body"]
    /\ loc' = [loc EXCEPT ![p].size0 = idx_size(idx), ![p].i = 1]
    /\ UNCHANGED <<dimensions, idx, index_lock, is_built, built_lock, disk,
                   op, calls, returned, elsewhere>>

\* index.index.read().map_err(..)?
ReadLocked(p) ==
    /\ IF is_poisoned(index_lock)
       THEN /\ Finish(p, LockPoisoned)
            /\ UNCHANGED index_lock
       ELSE /\ index_lock' = [index_lock EXCEPT !.readers = @ \cup {p}]
            /\ pc' = [pc EXCEPT ![p] = "body"]
            /\ loc' = [loc EXCEPT ![p].size0 = idx_size(idx), ![p].i = 1]
    /\ UNCHANGED <<dimensions, idx, is_built, built_lock, disk, op, calls,
                   returned,
                   elsewhere>>

index_read(p) ==
    /\ pc[p] = "lock"
    /\ LockMode(op[p].kind) = "read"
    /\ read_available(index_lock, Waiting)
    /\ ReadLocked(p)

\* The platform lets the reader in ahead of a waiting writer.
index_read_pass(p) ==
    /\ pc[p] = "lock"
    /\ LockMode(op[p].kind) = "read"
    /\ read_may_pass(index_lock, Waiting)
    /\ ReadLocked(p)

\* ------------------------------------------------------- under the guard
InBody(p, kind) == pc[p] = "body" /\ op[p].kind = kind

hnsw_reserve_term(ok) == IF ok THEN OkOk ELSE ErrorTerm("Reserve failed")

hnsw_reserve_body(p) ==
    /\ InBody(p, "reserve")
    /\ \E out \in idx_reserve(idx, op[p].capacity) :
          /\ idx' = out.ix
          /\ Finish(p, hnsw_reserve_term(out.ok))
    /\ UNCHANGED <<dimensions, index_lock, is_built, built_lock,
                   disk, op, calls, returned,
                   elsewhere>>

\* The engine's refusal is dropped.
hnsw_add_term_always_ok(ok) == OkOk

hnsw_add_term(ok) == IF ok THEN OkOk ELSE ErrorTerm("Add failed")

hnsw_add_body(p) ==
    /\ InBody(p, "add")
    /\ \E out \in idx_add(idx, op[p].key, op[p].vector) :
          /\ idx' = out.ix
          /\ Finish(p, hnsw_add_term(out.ok))
    /\ UNCHANGED <<dimensions, index_lock, is_built, built_lock,
                   disk, op, calls, returned,
                   elsewhere>>

\* One turn of the loop over the entries: Ok(_) => added += 1, Err(_) => continue.
batch_added(added, ok) == IF ok THEN added + 1 ELSE added

\* Err(_) => break.
batch_next_break(i, n, ok) == IF ok THEN i + 1 ELSE n + 1

batch_next(i, n, ok) == i + 1

hnsw_add_batch_loop(p) ==
    /\ InBody(p, "add_batch")
    /\ loc[p].i <= Len(op[p].entries)
    /\ LET entry == op[p].entries[loc[p].i]
       IN  \E out \in idx_add(idx, entry[1], entry[2]) :
              /\ idx' = out.ix
              /\ loc' = [loc EXCEPT
                    ![p].i = batch_next(@, Len(op[p].entries), out.ok),
                    ![p].added = batch_added(@, out.ok),
                    ![p].tried = Append(@, <<entry[1], out.ok>>)]
    /\ UNCHANGED <<dimensions, index_lock, is_built, built_lock,
                   disk, pc, op, calls, returned,
                   elsewhere>>

hnsw_add_batch_term(added) == OkCount(added)

\* A batch that asks for the index a second time to set the flag.
hnsw_add_batch_mark_relocking(p) ==
    /\ InBody(p, "add_batch")
    /\ loc[p].i > Len(op[p].entries)
    /\ write_available(index_lock)
    /\ built_lock' = [built_lock EXCEPT !.writers = @ \cup {p}]
    /\ pc' = [pc EXCEPT ![p] = "mark"]
    /\ UNCHANGED <<dimensions, idx, index_lock, is_built, disk,
                   op, loc, calls, returned, elsewhere>>

\* if let Ok(mut is_built) = index.is_built.write(): taken while the index
\* guard is still held; a poisoned flag lock is passed over.
hnsw_add_batch_mark(p) ==
    /\ InBody(p, "add_batch")
    /\ loc[p].i > Len(op[p].entries)
    /\ write_available(built_lock)
    /\ IF is_poisoned(built_lock)
       THEN /\ Finish(p, hnsw_add_batch_term(loc[p].added))
            /\ UNCHANGED built_lock
       ELSE /\ built_lock' = [built_lock EXCEPT !.writers = @ \cup {p}]
            /\ pc' = [pc EXCEPT ![p] = "mark"]
            /\ UNCHANGED loc
    /\ UNCHANGED <<dimensions, idx, index_lock, is_built, disk,
                   op, calls, returned,
                   elsewhere>>

\* A flag that is set only when something was added.
built_after_if_added(built, added) == built \/ added > 0

\* *is_built = true, whatever was added.
built_after(built, added) == TRUE

\* The flag is set and its guard dropped at the end of the if-let block.
hnsw_add_batch_built(p) ==
    /\ pc[p] = "mark"
    /\ is_built' = built_after(is_built, loc[p].added)
    /\ built_lock' = Dropped(built_lock, p, FALSE)
    /\ Finish(p, hnsw_add_batch_term(loc[p].added))
    /\ UNCHANGED <<dimensions, idx, index_lock, disk, op,
                   calls, returned,
                   elsewhere>>

\* keys zipped with the distances taken from the far end.
Zip_crossed(keys, distances) ==
    [a \in 1..Min(Len(keys), Len(distances)) |->
        <<keys[a], distances[Len(distances) + 1 - a]>>]

\* keys zipped with distances, in the engine's order.
Zip(keys, distances) ==
    [a \in 1..Min(Len(keys), Len(distances)) |-> <<keys[a], distances[a]>>]

hnsw_search_term(out) ==
    IF out.ok THEN OkList(Zip(out.keys, out.distances))
    ELSE ErrorTerm("Search failed")

hnsw_search_body(p) ==
    /\ InBody(p, "search")
    /\ \E out \in idx_search(idx, op[p].vector, op[p].k) :
          Finish(p, hnsw_search_term(out))
    /\ UNCHANGED <<dimensions, idx, index_lock, is_built, built_lock,
                   disk, op, calls, returned,
                   elsewhere>>

hnsw_size_body(p) ==
    /\ InBody(p, "size")
    /\ Finish(p, OkCount(idx_size(idx)))
    /\ UNCHANGED <<dimensions, idx, index_lock, is_built, built_lock,
                   disk, op, calls, returned,
                   elsewhere>>

hnsw_capacity_body(p) ==
    /\ InBody(p, "capacity")
    /\ Finish(p, OkCount(idx_capacity(idx)))
    /\ UNCHANGED <<dimensions, idx, index_lock, is_built, built_lock,
                   disk, op, calls, returned,
                   elsewhere>>

hnsw_contains_body(p) ==
    /\ InBody(p, "contains")
    /\ \E b \in idx_contains(idx, op[p].key) : Finish(p, OkBool(b))
    /\ UNCHANGED <<dimensions, idx, index_lock, is_built, built_lock,
                   disk, op, calls, returned,
                   elsewhere>>

\* The engine's refusal to remove is reported as success.
hnsw_remove_term_swallowed(ok) == OkOk

hnsw_remove_term(ok) == IF ok THEN OkOk ELSE ErrorTerm("Remove failed")

hnsw_remove_body(p) ==
    /\ InBody(p, "remove")
    /\ \E out \in idx_remove(idx, op[p].key) :
          /\ idx' = out.ix
          /\ Finish(p, hnsw_remove_term(out.ok))
    /\ UNCHANGED <<dimensions, index_lock, is_built, built_lock,
                   disk, op, calls, returned,
                   elsewhere>>

hnsw_save_term(ok) == IF ok THEN OkOk ELSE ErrorTerm("Save failed")

hnsw_save_body(p) ==
    /\ InBody(p, "save")
    /\ \E out \in idx_save(idx, dimensions, disk) :
          /\ disk' = out.file
          /\ Finish(p, hnsw_save_term(out.ok))
    /\ UNCHANGED <<dimensions, idx, index_lock, is_built, built_lock, op,
                   calls, returned,
                   elsewhere>>

\* The four entries of the stats vector, read one after the other.
stats_field(i) ==
    CASE i = 1 -> idx_size(idx)
      [] i = 2 -> idx_capacity(idx)
      [] i = 3 -> dimensions
      [] OTHER -> idx_memory_usage(idx)

hnsw_stats_body(p) ==
    /\ InBody(p, "stats")
    /\ LET snap == Append(loc[p].snap, stats_field(loc[p].i))
       IN  IF loc[p].i < 4
           THEN /\ loc' = [loc EXCEPT ![p].snap = snap, ![p].i = @ + 1]
                /\ UNCHANGED pc
           ELSE /\ loc' = [loc EXCEPT ![p].snap = snap,
                                      ![p].result = OkStats(snap)]
                /\ pc' = [pc EXCEPT ![p] = "ret"]
    /\ UNCHANGED <<dimensions, idx, index_lock, is_built, built_lock,
                   disk, op, calls, returned,
                   elsewhere>>

\* ------------------------------------------------------- leaving a NIF
\* What the caller learns of a change of the index from the returned term.
Report(call, term) ==
    IF term.tag # "ok" THEN <<>>
    ELSE CASE call.kind = "add" -> << <<"add", call.key, 1>> >>
           [] call.kind = "remove" -> << <<"remove", call.key, 1>> >>
           [] call.kind = "add_batch" /\ term.n > 0 ->
                << <<"add_batch", 0, term.n>> >>
           [] OTHER -> <<>>

\* Guards that are let go only on the success path.
Released_on_ok_only(l, p, term) ==
    IF term.tag = "ok" THEN Dropped(l, p, FALSE) ELSE l

\* The guards of a NIF go out of scope when it returns, whatever its term.
Released(l, p, term) == Dropped(l, p, FALSE)

\* The NIF returns its term to the caller.
Return(p) ==
    /\ pc[p] = "ret"
    /\ index_lock' = Released(index_lock, p, loc[p].result)
    /\ built_lock' = Released(built_lock, p, loc[p].result)
    /\ returned' = returned \o Report(op[p], loc[p].result)
    /\ pc' = [pc EXCEPT ![p] = "idle"]
    /\ op' = [op EXCEPT ![p] = NoCall]
    /\ loc' = [loc EXCEPT ![p] = NoLocals]
    /\ UNCHANGED <<dimensions, idx, is_built, disk, calls,
                   elsewhere>>

\* A panic under the index guard unwinds the NIF: the guard is dropped on the
\* way out, and a write guard leaves the lock poisoned.
Panic(p) ==
    /\ pc[p] = "body"
    /\ index_lock' = Dropped(index_lock, p, TRUE)
    /\ built_lock' = Dropped(built_lock, p, TRUE)
    /\ pc' = [pc EXCEPT ![p] = "idle"]
    /\ op' = [op EXCEPT ![p] = NoCall]
    /\ loc' = [loc EXCEPT ![p] = NoLocals]
    /\ UNCHANGED <<dimensions, idx, is_built, disk, calls,
                   returned,
                   elsewhere>>

Next ==
    \E p \in Procs :
        \/ hnsw_reserve(p)
        \/ hnsw_add(p)
        \/ hnsw_add_batch(p)
        \/ hnsw_search(p)
        \/ hnsw_size(p)
        \/ hnsw_capacity(p)
        \/ hnsw_dimensions(p)
        \/ hnsw_contains(p)
        \/ hnsw_remove(p)
        \/ hnsw_save(p)
        \/ hnsw_stats(p)
        \/ index_write(p)
        \/ index_read(p)
        \/ index_read_pass(p)
        \/ hnsw_reserve_body(p)
        \/ hnsw_add_body(p)
        \/ hnsw_add_batch_loop(p)
        \/ hnsw_add_batch_mark(p)
        \/ hnsw_add_batch_built(p)
        \/ hnsw_search_body(p)
        \/ hnsw_size_body(p)
        \/ hnsw_capacity_body(p)
        \/ hnsw_contains_body(p)
        \/ hnsw_remove_body(p)
        \/ hnsw_save_body(p)
        \/ hnsw_stats_body(p)
        \/ Return(p)
        \/ Panic(p)

Spec == Init /\ [][Next]_vars

\* The steps of a caller inside the NIF it has entered.  A NIF runs on a
\* scheduler thread of its own: it takes its next step when that step stays
\* possible, and a lock that stays free is given to a thread that asks.
Progress(p) ==
    \/ index_write(p)
    \/ index_read(p)
    \/ index_read_pass(p)
    \/ hnsw_reserve_body(p)
    \/ hnsw_add_body(p)
    \/ hnsw_add_batch_loop(p)
    \/ hnsw_add_batch_mark(p)
    \/ hnsw_add_batch_built(p)
    \/ hnsw_search_body(p)
    \/ hnsw_size_body(p)
    \/ hnsw_capacity_body(p)
    \/ hnsw_contains_body(p)
    \/ hnsw_remove_body(p)
    \/ hnsw_save_body(p)
    \/ hnsw_stats_body(p)
    \/ Return(p)

\* Every NIF of the handle, called by every caller, on one key: which key
\* a call names does not decide which lock it asks for.
NextLive ==
    \E p \in Procs :
        \/ hnsw_reserve(p)
        \/ \E vector \in Vectors : hnsw_add_call(p, 1, vector)
        \/ \E entries \in UNION {[1..n -> {1} \X Vectors] : n \in 0..MaxBatch} :
              hnsw_add_batch_call(p, entries)
        \/ \E query \in Vectors : hnsw_search_call(p, query, MaxK)
        \/ hnsw_size(p)
        \/ hnsw_capacity(p)
        \/ hnsw_dimensions(p)
        \/ hnsw_contains_call(p, 1)
        \/ hnsw_remove_call(p, 1)
        \/ hnsw_save(p)
        \/ hnsw_stats(p)
        \/ Progress(p)
        \/ Panic(p)

SpecLive ==
    Init /\ [][NextLive]_vars /\ \A p \in Procs : WF_vars(Progress(p))

\* ------------------------------------------------------- stored points
\* The same handle, used with vectors that differ: what is searched for is
\* found among points at different distances, the index is saved, and new
\* handles are made from the file.

\* The dimension of a handle made from a file, left at a value of the
\* options the fresh index was made with.
loaded_dimensions_of_options(out) == 0

\* let dimensions = index.dimensions(), after the load.
loaded_dimensions(out) == out.dimensions

\* is_built: RwLock::new(true).
loaded_is_built(out) == TRUE

Handle(made, out) ==
    [made |-> made, dimensions |-> loaded_dimensions(out), index |-> out.ix,
     is_built |-> loaded_is_built(out)]

\* hnsw_load takes a path and no handle: no lock of the saved index is asked
\* for.  A load that fails returns an error term and makes no handle.
hnsw_load ==
    /\ \E out \in idx_load(disk) :
          loaded' = IF out.ok THEN Handle("load", out) ELSE loaded
    /\ UNCHANGED <<dimensions, idx, index_lock, is_built, built_lock, disk,
                   pc, op, loc, calls, returned, nif, ret>>

hnsw_view ==
    /\ \E out \in idx_load(disk) :
          loaded' = IF out.ok THEN Handle("view", out) ELSE loaded
    /\ UNCHANGED <<dimensions, idx, index_lock, is_built, built_lock, disk,
                   pc, op, loc, calls, returned, nif, ret>>

hnsw_add_point(p) ==
    \E key \in Keys, vector \in Points : hnsw_add_call(p, key, vector)

hnsw_search_point(p) ==
    \E query \in Points, k \in 0..MaxHits : hnsw_search_call(p, query, k)

NextStore ==
    \/ \E p \in Procs :
            \/ hnsw_add_point(p)
            \/ hnsw_search_point(p)
            \/ hnsw_contains(p)
            \/ hnsw_remove(p)
            \/ hnsw_save(p)
            \/ index_write(p)
            \/ index_read(p)
            \/ index_read_pass(p)
            \/ hnsw_add_body(p)
            \/ hnsw_search_body(p)
            \/ hnsw_contains_body(p)
            \/ hnsw_remove_body(p)
            \/ hnsw_save_body(p)
            \/ Return(p)
    \/ hnsw_load
    \/ hnsw_view

SpecStore == Init /\ [][NextStore]_vars

\* ------------------------------------------------------- the vector NIFs
\* The NIFs of lib.rs take vectors and return terms; they share no state.
\* An f32 is modelled by an integer and f32 arithmetic by exact arithmetic:
\* the rounding of the float operations is left out.  The sums of squares
\* of the float cosine overflow as those of an f32 do.
FloatVecs == UNION {[1..n -> 0..1] : n \in 0..MaxDim}
FloatCorpora == UNION {[1..n -> FloatVecs] : n \in 0..MaxCorpus}

\* The bytes of a Binary: u8 values, of both signs when read as i8.
ByteVecs == UNION {[1..n -> {1, 255}] : n \in 0..MaxDim}
ByteCorpora == UNION {[1..n -> ByteVecs] : n \in 0..MaxCorpus}

\* The orders in which n items can get done.
Orders(n) == {f \in [1..n -> 1..n] : \A i, j \in 1..n : i # j => f[i] # f[j]}

EmptyVector == ErrorTerm("empty_vector")
EmptyCorpus == ErrorTerm("empty_corpus")

\* The results pushed as the workers finish.
par_collect_as_completed(vals, order) ==
    [j \in DOMAIN vals |-> vals[order[j]]]

\* par_iter().map(..).collect(): item order[j] is the j-th to get done, and
\* each result is put at the place of its item.
par_collect(vals, order) ==
    LET completed == [j \in DOMAIN vals |-> vals[order[j]]]
    IN  [i \in DOMAIN vals |->
            completed[CHOOSE j \in DOMAIN vals : order[j] = i]]

\* The items with their 1-based positions.
enumerate_from_one(vals) == [i \in DOMAIN vals |-> <<i, vals[i]>>]

\* enumerate(): the items with their 0-based positions.
enumerate(vals) == [i \in DOMAIN vals |-> <<i - 1, vals[i]>>]

\* k.saturating_sub(1), as a 1-based position.
nth_of(k) == Max(k - 1, 0) + 1

\* The float n / sqrt(d), kept as the pair of n and d; 0.0 is 0 / sqrt(1).
Ratio(n, d) == [n |-> n, d |-> d]

\* x > y for two such floats: the squares are compared, with their signs.
Greater(x, y) ==
    LET sq(n) == IF n >= 0 THEN n * n ELSE -(n * n)
    IN  sq(x.n) * y.d > sq(y.n) * x.d

\* The closures the selections and sorts are given: whether x sorts before y.
\* by_similarity is |a, b| b.1.partial_cmp(&a.1), the larger score first;
\* by_distance is the key |(_, d)| *d, the smaller distance first.
Before(cmp, x, y) ==
    IF cmp = "by_distance" THEN x[2] < y[2] ELSE Greater(x[2], y[2])

\* A reordering that moves nothing into place.
select_nth_unstable_by_none(s, nth, cmp) ==
    {[i \in DOMAIN s |-> s[f[i]]] : f \in Orders(Len(s))}

\* select_nth_unstable_by: some reordering that has at position nth what a
\* sort would have there, nothing that sorts after it in front of it and
\* nothing that sorts before it behind it.
select_nth_unstable_by(s, nth, cmp) ==
    {t \in {[i \in DOMAIN s |-> s[f[i]]] : f \in Orders(Len(s))} :
        /\ \A i \in 1..(nth - 1) : ~Before(cmp, t[nth], t[i])
        /\ \A j \in (nth + 1)..Len(s) : ~Before(cmp, t[j], t[nth])}

\* truncate(k).
truncate(s, k) == SubSeq(s, 1, Min(k, Len(s)))

\* The list is left as the selection put it.
sort_by_skipped(s, cmp) == s

\* sort_by: a stable sort.
sort_by(s, cmp) ==
    LET f == CHOOSE f \in Orders(Len(s)) :
                \A i, j \in 1..Len(s) :
                    i < j => \/ Before(cmp, s[f[i]], s[f[j]])
                             \/ (~Before(cmp, s[f[j]], s[f[i]]) /\ f[i] < f[j])
    IN  [i \in DOMAIN s |-> s[f[i]]]

\* The bytes that differ are counted, not their bits.
hamming_of_bytes(a, b) ==
    Cardinality({i \in DOMAIN a \cap DOMAIN b : a[i] # b[i]})

\* The sum of (x ^ y).count_ones() over the zipped bytes.
RECURSIVE hamming(_, _)
hamming(a, b) ==
    IF a = <<>> \/ b = <<>> THEN 0
    ELSE Cardinality({i \in 0..7 :
                         (Head(a) \div 2^i) % 2 # (Head(b) \div 2^i) % 2})
         + hamming(Tail(a), Tail(b))

\* Only the first vector of the corpus is measured.
corpus_check_first(query, corpus) ==
    IF query = <<>> THEN EmptyVector
    ELSE IF corpus = <<>> THEN EmptyCorpus
    ELSE IF Len(corpus[1]) # Len(query) THEN DimensionMismatch
    ELSE NoTerm

\* The checks every batch and top-k NIF makes before it computes.
corpus_check(query, corpus) ==
    IF query = <<>> THEN EmptyVector
    ELSE IF corpus = <<>> THEN EmptyCorpus
    ELSE IF \E i \in DOMAIN corpus : Len(corpus[i]) # Len(query)
         THEN DimensionMismatch
    ELSE NoTerm

\* The sums of int8_cosine, in i64: a[i] * b[i] over the positions.
RECURSIVE sum_products(_, _)
sum_products(a, b) ==
    IF a = <<>> \/ b = <<>> THEN 0
    ELSE Head(a) * Head(b) + sum_products(Tail(a), Tail(b))

\* An f32 is a small integer, f32::MAX of either sign (F32Max, far above
\* every small integer), an infinity or the NaN.
Inf == F32Max + 1
NaN == F32Max + 2

\* The f32 an exact result becomes: beyond f32::MAX it is an infinity.
f32(x) == IF x > F32Max THEN Inf ELSE IF x < -F32Max THEN -Inf ELSE x

\* x + y in f32, rounded to the nearest: a small integer added to f32::MAX
\* of either sign leaves it as it is.
f32_add(x, y) ==
    IF x = NaN \/ y = NaN \/ (x = Inf /\ y = -Inf) \/ (x = -Inf /\ y = Inf)
    THEN NaN
    ELSE IF x \in {Inf, -Inf} THEN x
    ELSE IF y \in {Inf, -Inf} THEN y
    ELSE IF x \in {F32Max, -F32Max} /\ y \notin {F32Max, -F32Max} THEN x
    ELSE IF y \in {F32Max, -F32Max} /\ x \notin {F32Max, -F32Max} THEN y
    ELSE f32(x + y)

\* sum += x for each x of xs in turn.
RECURSIVE accumulate(_, _)
accumulate(sum, xs) ==
    IF xs = <<>> THEN sum
    ELSE accumulate(f32_add(sum, Head(xs)), Tail(xs))

\* One sum of simd_cosine over the products a[i] * b[i]: the chunks of 8
\* lanes, each reduced and added, then the remainder one by one.  The lanes
\* of a chunk are added from the first to the last.
sum_f32(a, b) ==
    LET len == Len(a)
        chunks == len \div 8
        remainder == len % 8
        start == chunks * 8
        product(i) == f32(a[i] * b[i])
        reduce_add(c) ==
            accumulate(0, [l \in 1..8 |-> product(8 * (c - 1) + l)])
    IN  accumulate(accumulate(0, [c \in 1..chunks |-> reduce_add(c)]),
                   [i \in 1..remainder |-> product(start + i)])

\* sum_ab / (sum_a2.sqrt() * sum_b2.sqrt()), 0.0 when the denominator
\* == 0.0.  The root of an infinity is an infinity; an infinity times 0.0
\* is a NaN, which is not == 0.0, and a quotient of two infinities or by a
\* NaN is a NaN: the score 0 / sqrt(0).  A finite sum by an infinity is 0.0.
simd_cosine(a, b) ==
    LET sum_ab == sum_f32(a, b)
        sum_a2 == sum_f32(a, a)
        sum_b2 == sum_f32(b, b)
    IN  IF sum_a2 = Inf \/ sum_b2 = Inf
        THEN IF sum_a2 = 0 \/ sum_b2 = 0 \/ sum_ab \in {Inf, -Inf, NaN}
             THEN Ratio(0, 0)
             ELSE Ratio(0, 1)
        ELSE IF sum_a2 * sum_b2 = 0 THEN Ratio(0, 1)
        ELSE Ratio(sum_ab, sum_a2 * sum_b2)

\* x as i8.
as_i8(x) == IF x >= 128 THEN x - 256 ELSE x

int8_cosine(a, b) ==
    LET sa == [i \in DOMAIN a |-> as_i8(a[i])]
        sb == [i \in DOMAIN b |-> as_i8(b[i])]
        dot == sum_products(sa, sb)
        norm_a == sum_products(sa, sa)
        norm_b == sum_products(sb, sb)
    IN  IF norm_a * norm_b = 0 THEN Ratio(0, 1) ELSE Ratio(dot, norm_a * norm_b)

\* What a top-k NIF can return for the scores of the corpus: the error of
\* the checks, or the scores collected with their positions, the best k
\* selected, the rest cut off and the k sorted.
top_k_terms(query, corpus, scores, k0, order, cmp) ==
    IF corpus_check(query, corpus) # NoTerm
    THEN {corpus_check(query, corpus)}
    ELSE LET indexed_results == par_collect(enumerate(scores), order)
             k == Min(k0, Len(indexed_results))
         IN  {OkList(sort_by(truncate(t, k), cmp)) :
                t \in select_nth_unstable_by(indexed_results, nth_of(k),
                                             cmp)}

\* A vector NIF is called and returns.
Returns(call, terms) ==
    /\ nif' = call
    /\ ret' \in terms
    /\ UNCHANGED handles

top_k_hamming ==
    /\ nif = NoNif
    /\ \E query \in ByteVecs, corpus \in ByteCorpora, k \in 0..MaxTop :
      \E order \in Orders(Len(corpus)) :
        Returns(Nif("top_k_hamming", query, <<>>, corpus, k, <<>>),
                top_k_terms(query, corpus,
                            [i \in DOMAIN corpus |->
                                hamming(corpus[i], query)],
                            k, order, "by_distance"))

top_k_similar ==
    /\ nif = NoNif
    /\ \E query \in FloatVecs, corpus \in FloatCorpora, k \in 0..MaxTop :
      \E order \in Orders(Len(corpus)) :
        Returns(Nif("top_k_similar", query, <<>>, corpus, k, <<>>),
                top_k_terms(query, corpus,
                            [i \in DOMAIN corpus |->
                                simd_cosine(query, corpus[i])],
                            k, order, "by_similarity"))

top_k_similar_int8 ==
    /\ nif = NoNif
    /\ \E query \in ByteVecs, corpus \in ByteCorpora, k \in 0..MaxTop :
      \E order \in Orders(Len(corpus)) :
        Returns(Nif("top_k_similar_int8", query, <<>>, corpus, k, <<>>),
                top_k_terms(query, corpus,
                            [i \in DOMAIN corpus |->
                                int8_cosine(query, corpus[i])],
                            k, order, "by_similarity"))

\* The checks of the NIFs that take two vectors.
pair_check(a, b) ==
    IF a = <<>> \/ b = <<>> THEN EmptyVector
    ELSE IF Len(a) # Len(b) THEN DimensionMismatch
    ELSE NoTerm

\* {:ok, similarity}.
OkScore(x) == Term("ok", "score", 0, <<x>>)

\* What a NIF of two vectors returns, given the result of its computation.
pair_term(a, b, ok) ==
    IF pair_check(a, b) # NoTerm THEN pair_check(a, b) ELSE ok

\* What a batch NIF returns for the scores of the corpus.
batch_term(query, corpus, scores, order) ==
    IF corpus_check(query, corpus) # NoTerm THEN corpus_check(query, corpus)
    ELSE OkList(par_collect(scores, order))

\* The workers run only when the checks have passed.
Runs(query, corpus) ==
    IF corpus_check(query, corpus) = NoTerm THEN Orders(Len(corpus))
    ELSE {<<>>}

\* The inputs are short vectors of small and of the largest floats, of
\* both signs, and vectors of 8 and 9 elements along an axis.
cosine_similarity ==
    /\ nif = NoNif
    /\ \E a, b \in
            UNION {[1..n -> {-F32Max, -1, 0, 1, F32Max}] : n \in 0..MaxDim}
            \cup {[i \in 1..n |-> IF i = j THEN x ELSE 0] :
                     n \in {8, 9}, j \in {1, 8, 9}, x \in -1..1} :
        Returns(Nif("cosine_similarity", a, b, <<>>, 0, <<>>),
                {pair_term(a, b, OkScore(simd_cosine(a, b)))})

\* The inputs hold bytes of both signs and zeros.
cosine_similarity_int8 ==
    /\ nif = NoNif
    /\ \E a, b \in UNION {[1..n -> {0, 1, 255}] : n \in 0..MaxDim} :
        Returns(Nif("cosine_similarity_int8", a, b, <<>>, 0, <<>>),
                {pair_term(a, b, OkScore(int8_cosine(a, b)))})

\* The inputs hold bytes and their bitwise complements.
hamming_distance ==
    /\ nif = NoNif
    /\ \E a, b \in UNION {[1..n -> {0, 1, 254, 255}] : n \in 0..MaxDim} :
        Returns(Nif("hamming_distance", a, b, <<>>, 0, <<>>),
                {pair_term(a, b, OkCount(hamming(a, b)))})

batch_similarity ==
    /\ nif = NoNif
    /\ \E query \in FloatVecs, corpus \in FloatCorpora :
      \E order \in Runs(query, corpus) :
        Returns(Nif("batch_similarity", query, <<>>, corpus, 0, order),
                {batch_term(query, corpus,
                            [i \in DOMAIN corpus |->
                                simd_cosine(query, corpus[i])], order)})

batch_similarity_int8 ==
    /\ nif = NoNif
    /\ \E query \in ByteVecs, corpus \in ByteCorpora :
      \E order \in Runs(query, corpus) :
        Returns(Nif("batch_similarity_int8", query, <<>>, corpus, 0, order),
                {batch_term(query, corpus,
                            [i \in DOMAIN corpus |->
                                int8_cosine(query, corpus[i])], order)})

batch_hamming_distance ==
    /\ nif = NoNif
    /\ \E query \in ByteVecs, corpus \in ByteCorpora :
      \E order \in Runs(query, corpus) :
        Returns(Nif("batch_hamming_distance", query, <<>>, corpus, 0, order),
                {batch_term(query, corpus,
                            [i \in DOMAIN corpus |->
                                hamming(corpus[i], query)], order)})

\* Each element over magnitude = sum(x * x).sqrt(), or the input itself
\* when magnitude == 0.0: x is x / sqrt(1).  A finite x over an infinite
\* magnitude is 0.0.
normalize_vector ==
    /\ nif = NoNif
    /\ \E input \in
            UNION {[1..n -> {-F32Max, -1, 0, 1, F32Max}] : n \in 0..MaxDim} :
        LET sum == accumulate(0, [i \in DOMAIN input |->
                                    f32(input[i] * input[i])])
        IN  Returns(Nif("normalize_vector", input, <<>>, <<>>, 0, <<>>),
                {IF input = <<>> THEN EmptyVector
                 ELSE IF sum = 0
                      THEN OkList([i \in DOMAIN input |->
                                      Ratio(input[i], 1)])
                 ELSE IF sum = Inf
                      THEN OkList([i \in DOMAIN input |-> Ratio(0, 1)])
                 ELSE OkList([i \in DOMAIN input |->
                                 Ratio(input[i], sum)])})

NextBatch ==
    \/ normalize_vector
    \/ cosine_similarity
    \/ cosine_similarity_int8
    \/ hamming_distance
    \/ batch_similarity
    \/ batch_similarity_int8
    \/ batch_hamming_distance

SpecBatch == Init /\ [][NextBatch]_vars

\* ------------------------------------------------------- int8 quantization
\* The float n / d, kept as the pair of n and d (d > 0).
Fraction(n, d) == [n |-> n, d |-> d]

\* fold(f32::INFINITY, f32::min) and fold(f32::NEG_INFINITY, f32::max).
min_val(input) ==
    CHOOSE x \in {input[i] : i \in DOMAIN input} :
        \A i \in DOMAIN input : x <= input[i]
max_val(input) ==
    CHOOSE x \in {input[i] : i \in DOMAIN input} :
        \A i \in DOMAIN input : x >= input[i]

\* if range == 0.0 { 1.0 } else { range / 255.0 }
scale_of(range) == IF range = 0 THEN Fraction(1, 1) ELSE Fraction(range, 255)

\* x as i8 as u8.
as_u8(x) == IF x < 0 THEN x + 256 ELSE x

\* ((normalized - 128.0).clamp(-128.0, 127.0) as i8) as u8, with
\* normalized = (v - offset) / scale: the cast of a float to i8 drops the
\* fraction, towards zero.
quantize_element(v, offset, scale) ==
    LET num == (v - offset) * scale.d - 128 * scale.n
        den == scale.n
        clamped == IF num < -128 * den THEN -128 * den
                   ELSE IF num > 127 * den THEN 127 * den
                   ELSE num
    IN  as_u8(IF clamped >= 0 THEN clamped \div den
              ELSE -((-clamped) \div den))

\* Each element is (signed as f32 + 128.0) * scale + offset.
dequantize_int8_term(binary, scale, offset) ==
    IF binary = <<>> THEN EmptyVector
    ELSE OkList([i \in DOMAIN binary |->
                    Fraction((as_i8(binary[i]) + 128) * scale.n
                                 + offset * scale.d, scale.d)])

\* The term is {:ok, {quantized_binary, scale, offset}}.
quantize_int8 ==
    /\ nif = NoNif
    /\ \E input \in UNION {[1..n -> 0..MaxFloat] : n \in 0..MaxQuant} :
        Returns(
            Nif("quantize_int8", input, <<>>, <<>>, 0, <<>>),
            {IF input = <<>> THEN EmptyVector
             ELSE LET scale == scale_of(max_val(input) - min_val(input))
                      offset == min_val(input)
                  IN  Term("ok", "quantized", 0,
                           <<[i \in DOMAIN input |->
                                 quantize_element(input[i], offset, scale)],
                             scale, offset>>)})

\* dequantize_int8 is given what quantize_int8 returned for a vector, kept
\* in the call as `corpus`, or bytes of its caller's own.
dequantize_int8 ==
    \/ /\ nif.name = "quantize_int8"
       /\ ret.tag = "ok"
       /\ Returns(Nif("dequantize_int8", ret.list[1],
                      <<ret.list[2], ret.list[3]>>, <<nif.a>>, 0, <<>>),
                  {dequantize_int8_term(ret.list[1], ret.list[2],
                                        ret.list[3])})
    \/ /\ nif = NoNif
       /\ \E binary \in ByteVecs :
            Returns(Nif("dequantize_int8", binary, <<Fraction(1, 1), 0>>,
                        <<>>, 0, <<>>),
                    {dequantize_int8_term(binary, Fraction(1, 1), 0)})

NextQuant ==
    \/ quantize_int8
    \/ dequantize_int8

SpecQuant == Init /\ [][NextQuant]_vars

\* ------------------------------------------------------- sign bits
byte_idx(i) == i \div 8

\* The bits of a byte are filled from the top.
bit_idx_msb_first(i) == 7 - (i % 8)

bit_idx(i) == i % 8

\* The loop over the dimensions from i on; signs[i + 1] tells whether
\* dimension i is >= 0, and then binary_vec[byte_idx] |= 1 << bit_idx.
RECURSIVE pack_from(_, _, _)
pack_from(signs, i, binary_vec) ==
    IF i >= Len(signs) THEN binary_vec
    ELSE LET mask == 2^bit_idx(i)
             old == binary_vec[byte_idx(i) + 1]
         IN  pack_from(signs, i + 1,
                 IF signs[i + 1] /\ (old \div mask) % 2 = 0
                 THEN [binary_vec EXCEPT ![byte_idx(i) + 1] = old + mask]
                 ELSE binary_vec)

\* The binary has byte_count = (input.len() + 7) / 8 bytes, zero at first.
pack(signs) ==
    pack_from(signs, 0, [b \in 1..((Len(signs) + 7) \div 8) |-> 0])

\* The inputs are floats of both signs and zero.
to_binary ==
    /\ nif = NoNif
    /\ \E input \in UNION {[1..n -> -1..1] : n \in 0..MaxBits} :
        Returns(Nif("to_binary", input, <<>>, <<>>, 0, <<>>),
                {IF input = <<>> THEN EmptyVector
                 ELSE OkList(pack([i \in DOMAIN input |-> input[i] >= 0]))})

\* The inputs are bytes on both sides of the sign of an i8.
int8_to_binary ==
    /\ nif = NoNif
    /\ \E int8_vec \in UNION {[1..n -> {0, 127, 128}] : n \in 0..MaxBits} :
        Returns(Nif("int8_to_binary", int8_vec, <<>>, <<>>, 0, <<>>),
                {IF int8_vec = <<>> THEN EmptyVector
                 ELSE OkList(pack([i \in DOMAIN int8_vec |->
                                      as_i8(int8_vec[i]) >= 0]))})

\* 1.0 - (distance as f32 / total_bits as f32), for two u32; the call keeps
\* them as its vector `a`.
hamming_to_similarity ==
    /\ nif = NoNif
    /\ \E distance \in 0..MaxBits, total_bits \in 0..MaxBits :
        Returns(Nif("hamming_to_similarity", <<distance, total_bits>>, <<>>,
                    <<>>, 0, <<>>),
                {IF total_bits = 0 THEN EmptyVector
                 ELSE OkScore(Fraction(total_bits - distance, total_bits))})

NextBinary ==
    \/ to_binary
    \/ int8_to_binary
    \/ hamming_to_similarity

SpecBinary == Init /\ [][NextBinary]_vars

NextTopK ==
    \/ top_k_similar
    \/ top_k_similar_int8
    \/ top_k_hamming

SpecTopK == Init /\ [][NextTopK]_vars


\* ------------------------------------------------------- the claims
\* The operations as the specification classes them.
ExclusiveOps == {"add", "add_batch", "reserve", "remove"}
SharedOps == {"search", "contains", "size", "capacity", "stats", "save"}

Holding(p) == Holds(index_lock, p)
UnderGuard(p) == pc[p] \in {"body", "mark"}

\* C1: while an exclusive operation (add, addBatch, reserve, remove) holds the
\* index, no other operation holds it; and every operation that is at work on
\* the index holds it, in the mode of its class.
TheoremC1 ==
    /\ \A p \in Procs : UnderGuard(p) => Holding(p)
    /\ \A p \in Procs :
          Holding(p) =>
              /\ op[p].kind \in ExclusiveOps \cup SharedOps
              /\ op[p].kind \in ExclusiveOps <=> p \in index_lock.writers
    /\ \A p, q \in Procs :
          (p # q /\ Holding(p) /\ op[p].kind \in ExclusiveOps) => ~Holding(q)

\* An exclusive operation holds the index while another operation asks for it.
WitnessC1 ==
    \E p, q \in Procs :
        /\ p # q
        /\ Holding(p) /\ op[p].kind \in ExclusiveOps /\ pc[p] = "body"
        /\ pc[q] = "lock" /\ op[q].kind \in SharedOps

\* C9: an operation that has returned, with a success or with an error, holds
\* neither the index lock nor the built-flag lock, so that both locks are free
\* whenever no operation is under way.
TheoremC9 ==
    /\ \A p \in Procs :
          pc[p] \in {"idle", "lock"} =>
              ~Holds(index_lock, p) /\ ~Holds(built_lock, p)
    /\ (\A p \in Procs : pc[p] \in {"idle", "lock"}) =>
          write_available(index_lock) /\ write_available(built_lock)

\* Every call of the run has returned, errors among them, and a writer can
\* take the index again.
WitnessC9 ==
    /\ calls = MaxCalls
    /\ \A p \in Procs : pc[p] = "idle"
    /\ returned # <<>>
    /\ Len(returned) < calls
    /\ write_available(index_lock)

\* A reader asks for the index and read() is not sure to return.
Blocked(p) ==
    /\ pc[p] = "lock"
    /\ op[p].kind \in SharedOps
    /\ ~ENABLED index_read(p)

\* C10 as stated: a shared-access operation is blocked only while an exclusive
\* operation holds the index.
OriginalC10 ==
    \A p \in Procs : Blocked(p) => \E q \in Procs : q # p /\ Holding(q) /\ op[q].kind \in ExclusiveOps

\* C10, amended: a shared-access operation is blocked only while an exclusive
\* operation holds the index or waits for it; shared-access operations alone
\* never block each other.
TheoremC10 ==
    \A p \in Procs :
        Blocked(p) =>
            \E q \in Procs :
                /\ q # p
                /\ op[q].kind \in ExclusiveOps
                /\ Holding(q) \/ pc[q] = "lock"

\* Two shared-access operations hold the index of the handle at once.
WitnessC10 ==
    \E p, q \in Procs :
        /\ p # q
        /\ Holding(p) /\ op[p].kind \in SharedOps
        /\ Holding(q) /\ op[q].kind \in SharedOps


Result(p) == loc[p].result

\* This step is the entry of p into the NIF `kind`.
Enters(p, kind) == pc[p] = "idle" /\ pc'[p] # "idle" /\ op'[p].kind = kind
Returning(p, kind) == pc[p] = "ret" /\ op[p].kind = kind

\* C2 as stated: once the index lock is poisoned, every operation that starts
\* or reaches the lock afterwards ends with the lock-poisoned error.
OriginalC2 ==
    [][index_lock.poisoned =>
        \A p \in Procs :
            (pc[p] \in {"idle", "lock"} /\ pc'[p] \notin {"idle", "lock"}) =>
                (pc'[p] = "ret" /\ loc'[p].result = LockPoisoned)]_vars

\* C2, amended: a poisoned index lock stays poisoned, nothing is at work on
\* the index and the index no longer changes; every operation that asks for the
\* lock ends with the lock-poisoned error, and the only other results are those
\* given before the lock is asked for: the dimension of dimensions,
\* DimensionMismatch of add, addBatch and search, and the count 0 of addBatch.
TheoremC2 ==
    /\ [](index_lock.poisoned =>
            \A p \in Procs : ~UnderGuard(p) /\ ~Holding(p))
    /\ [][index_lock.poisoned =>
            /\ index_lock'.poisoned
            /\ UNCHANGED <<idx, is_built, disk, dimensions>>
            /\ \A p \in Procs :
                  /\ (pc[p] = "lock" /\ pc'[p] # "lock") =>
                        (pc'[p] = "ret" /\ loc'[p].result = LockPoisoned)
                  /\ (pc[p] = "idle" /\ pc'[p] # "idle") =>
                        \/ pc'[p] = "lock"
                        \/ /\ pc'[p] = "ret"
                           /\ \/ /\ op'[p].kind = "dimensions"
                                 /\ loc'[p].result =
                                       Term("ok", "dimensions", dimensions, <<>>)
                              \/ /\ op'[p].kind \in {"add", "add_batch", "search"}
                                 /\ loc'[p].result = DimensionMismatch
                              \/ /\ op'[p].kind = "add_batch"
                                 /\ loc'[p].result = OkCount(0)]_vars

\* After the poisoning one operation has met the poisoned lock and another
\* has returned the dimension.
WitnessC2 ==
    /\ index_lock.poisoned
    /\ \E p, q \in Procs :
          /\ pc[p] = "ret" /\ Result(p) = LockPoisoned
          /\ Returning(q, "dimensions") /\ Result(q).tag = "ok"

\* C3 as stated: every addBatch that returns a success leaves the flag true.
OriginalC3 ==
    \A p \in Procs :
        (Returning(p, "add_batch") /\ Result(p).tag = "ok") => is_built

\* C3, amended: every addBatch of a non-empty entry list that returns a
\* success leaves the built flag true, however many entries were inserted,
\* none included; an addBatch of the empty list returns the count 0 and
\* leaves the flag as it was.  The flag, once true, stays true.
TheoremC3 ==
    /\ [](\A p \in Procs :
            (/\ Returning(p, "add_batch")
             /\ Result(p).tag = "ok"
             /\ op[p].entries # <<>>) => is_built)
    /\ [][/\ is_built => is_built'
          /\ \A p \in Procs :
                (Enters(p, "add_batch") /\ hnsw_add_batch_call(p, <<>>)) =>
                    /\ pc'[p] = "ret"
                    /\ loc'[p].result = OkCount(0)
                    /\ is_built' = is_built]_vars

\* The only call so far, an addBatch whose every insertion failed, has set
\* the flag.
WitnessC3 ==
    /\ calls = 1
    /\ \E p \in Procs :
          /\ Returning(p, "add_batch")
          /\ op[p].entries # <<>>
          /\ Result(p) = OkCount(0)
          /\ is_built

WrongDimension(entries) ==
    {e \in 1..Len(entries) : Len(entries[e][2]) # dimensions}

\* This step ends the call of p with DimensionMismatch and changes nothing.
Refused(p) ==
    /\ pc'[p] = "ret"
    /\ loc'[p].result = DimensionMismatch
    /\ UNCHANGED <<idx, is_built, index_lock, built_lock>>

\* C4: an addBatch with an entry of the wrong dimension at any position
\* returns DimensionMismatch and inserts nothing: the index and the built flag
\* are as before the call, and no such batch ever reaches the index.  (A step
\* that enters addBatch otherwise is the call of no batch with such an entry.)
TheoremC4 ==
    /\ [](\A p \in Procs :
            (op[p].kind = "add_batch" /\ pc[p] \in {"lock", "body", "mark"}) =>
                WrongDimension(op[p].entries) = {})
    /\ [][\A p \in Procs :
            /\ (Enters(p, "add_batch") /\ ~Refused(p)) =>
                  \A entries \in Batches :
                      WrongDimension(entries) # {} =>
                          ~hnsw_add_batch_call(p, entries)
            /\ (Returning(p, "add_batch") /\ Result(p) = DimensionMismatch
                /\ pc'[p] = "idle") =>
                      UNCHANGED <<idx, is_built, index_lock, built_lock>>]_vars

\* An addBatch was refused for its shape on an index that holds a key.
WitnessC4 ==
    \E p \in Procs :
        /\ Returning(p, "add_batch")
        /\ Result(p) = DimensionMismatch
        /\ idx_size(idx) > 0

\* C5 as stated: a batch with exactly one entry of the wrong dimension does
\* not end in an error for the whole batch.
OriginalC5 ==
    [][\A p \in Procs :
          (/\ Enters(p, "add_batch")
           /\ pc'[p] = "ret"
           /\ loc'[p].result.tag # "ok") =>
              \A entries \in Batches :
                  Cardinality(WrongDimension(entries)) = 1 =>
                      ~hnsw_add_batch_call(p, entries)]_vars

\* C5, amended: a batch of N entries with exactly one of the wrong dimension
\* is refused as a whole with DimensionMismatch and returns no count; a
\* success count is returned only for a batch whose entries all have the index
\* dimension, and it is at most N.
TheoremC5 ==
    /\ [](\A p \in Procs :
            (Returning(p, "add_batch") /\ Result(p).tag = "ok") =>
                /\ Result(p).what = "count"
                /\ Result(p).n <= Len(op[p].entries)
                /\ WrongDimension(op[p].entries) = {})
    /\ [][\A p \in Procs :
            (/\ Enters(p, "add_batch")
             /\ ~(pc'[p] = "ret" /\ loc'[p].result = DimensionMismatch)) =>
                \A entries \in Batches :
                    Cardinality(WrongDimension(entries)) = 1 =>
                        ~hnsw_add_batch_call(p, entries)]_vars

\* The first call of the run, an addBatch, was refused for its shape.
WitnessC5 ==
    /\ calls = 1
    /\ \E p \in Procs :
          Returning(p, "add_batch") /\ Result(p) = DimensionMismatch

Inserted(tried) == {j \in 1..Len(tried) : tried[j][2]}

\* C6: an addBatch at work on the index has tried exactly the entries before
\* its position, in list order; it counts the insertions that succeeded and
\* the index has grown by that count; when it returns it has tried every
\* entry and returns that count.
TheoremC6 ==
    \A p \in Procs :
        (op[p].kind = "add_batch" /\ Holding(p)) =>
            LET entries == op[p].entries
                tried == loc[p].tried
            IN  /\ Len(tried) = IF pc[p] = "body" THEN loc[p].i - 1
                                ELSE Len(entries)
                /\ Len(tried) <= Len(entries)
                /\ \A j \in 1..Len(tried) :
                      /\ j <= Len(entries)
                      /\ tried[j][1] = entries[j][1]
                      /\ tried[j][2] => tried[j][1] \in Live(idx)
                /\ loc[p].added = Cardinality(Inserted(tried))
                /\ idx_size(idx) = loc[p].size0 + loc[p].added
                /\ pc[p] = "ret" => Result(p) = OkCount(loc[p].added)

\* The first entry of a batch failed at insertion, the second was inserted,
\* and the call returns the count 1.
WitnessC6 ==
    \E p \in Procs :
        /\ Returning(p, "add_batch")
        /\ Holding(p)
        /\ Len(loc[p].tried) = 2
        /\ ~loc[p].tried[1][2]
        /\ loc[p].tried[2][2]
        /\ Result(p) = OkCount(1)

\* The one change reported to the callers so far is a successful add of key.
OnlyAdded(key) == returned = << <<"add", key, 1>> >>

\* C7: after one successful add on the new index, contains is true of that key
\* and false of every other, size is 1 and a search for at least one neighbour
\* returns that key alone; an add that succeeds makes the key live and the
\* size one larger, an add that fails changes nothing.
TheoremC7 ==
    /\ [](\A p \in Procs, key \in Keys :
            (/\ pc[p] = "ret" /\ Holding(p)
             /\ Result(p).tag = "ok"
             /\ OnlyAdded(key)) =>
                /\ op[p].kind = "size" => Result(p) = OkCount(1)
                /\ op[p].kind = "contains" =>
                      Result(p) = OkBool(op[p].key = key)
                /\ (op[p].kind = "search" /\ op[p].k >= 1) =>
                      /\ Len(Result(p).list) = 1
                      /\ Result(p).list[1][1] = key)
    /\ [][\A p \in Procs :
            (InBody(p, "add") /\ pc'[p] = "ret") =>
                IF loc'[p].result.tag = "ok"
                THEN /\ idx_size(idx') = idx_size(idx) + 1
                     /\ op[p].key \in Live(idx')
                     /\ idx'.vecs[op[p].key] = op[p].vector
                ELSE idx' = idx]_vars

\* A search on the index that holds the one added key has returned it.
WitnessC7 ==
    \E p \in Procs, key \in Keys :
        /\ OnlyAdded(key)
        /\ Returning(p, "search")
        /\ Result(p).tag = "ok"
        /\ Len(Result(p).list) = 1
        /\ Result(p).list[1][1] = key

\* C8: add and search with a vector whose length is not the index dimension
\* return DimensionMismatch and leave the index, the built flag and the locks
\* as they were; a vector reaches the index, and is stored in it, only at its
\* full length, which is the index dimension.
TheoremC8 ==
    /\ [](/\ \A p \in Procs :
                (op[p].kind \in {"add", "search"}
                 /\ pc[p] \in {"lock", "body"}) =>
                    Len(op[p].vector) = dimensions
          /\ \A key \in Live(idx) : Len(idx.vecs[key]) = dimensions)
    /\ [][\A p \in Procs :
            /\ (Enters(p, "add") /\ ~Refused(p)) =>
                  \A key \in Keys, vector \in Vectors :
                      Len(vector) # dimensions =>
                          ~hnsw_add_call(p, key, vector)
            /\ (Enters(p, "search") /\ ~Refused(p)) =>
                  \A query \in Vectors, k \in 0..MaxK :
                      Len(query) # dimensions =>
                          ~hnsw_search_call(p, query, k)
            /\ (/\ pc[p] = "ret"
                /\ op[p].kind \in {"add", "search"}
                /\ Result(p) = DimensionMismatch
                /\ pc'[p] = "idle") =>
                      UNCHANGED <<idx, is_built, index_lock, built_lock>>]_vars

\* An add and a search were both refused for the length of their vector, on
\* an index that holds a key.
WitnessC8 ==
    \E p, q \in Procs :
        /\ Returning(p, "add") /\ Result(p) = DimensionMismatch
        /\ Returning(q, "search") /\ Result(q) = DimensionMismatch
        /\ idx_size(idx) > 0


\* A search that went to the engine and is about to return its list.
SearchReturned(p) ==
    /\ pc[p] = "ret"
    /\ op[p].kind = "search"
    /\ loc[p].result.what = "list"

\* C11: the list a search returns has min(k, size) pairs, so at most k and
\* at most size; the distances do not decrease along the list; each key is a
\* key of the index and stands next to its own distance to the query, as
\* the engine paired them.
TheoremC11 ==
    \A p \in Procs :
        SearchReturned(p) =>
            LET l == loc[p].result.list
                n == Len(l)
            IN  /\ n <= op[p].k
                /\ n <= idx_size(idx)
                /\ n = Min(op[p].k, idx_size(idx))
                /\ \A a, b \in 1..n : a < b => l[a][2] <= l[b][2]
                /\ \A a \in 1..n :
                      /\ l[a][1] \in Live(idx)
                      /\ l[a][2] = Distance(op[p].vector, idx.vecs[l[a][1]])

\* A search returns two keys at different distances, the closer one first.
WitnessC11 ==
    \E p \in Procs :
        /\ SearchReturned(p)
        /\ Len(loc[p].result.list) = 2
        /\ loc[p].result.list[1][2] < loc[p].result.list[2][2]


\* The last change of `key` a caller was told of is its removal.
Removed(key) ==
    \E i \in DOMAIN returned :
        /\ returned[i] = <<"remove", key, 1>>
        /\ \A j \in (i + 1)..Len(returned) :
              /\ returned[j][1] # "add_batch"
              /\ ~(returned[j][1] = "add" /\ returned[j][2] = key)

ListKeys(l) == {l[a][1] : a \in DOMAIN l}

\* The engine call of remove is made in this step.
Removes(p) == pc[p] = "body" /\ op[p].kind = "remove" /\ pc'[p] = "ret"

\* C12: a key whose removal has succeeded is in the list of no search until
\* it is added again; the step of a remove that succeeds leaves the key out
\* of the live keys, and the step of a remove that fails ends with the error
\* term "Remove failed" and the index as it was.  (contains is not bound.)
TheoremC12 ==
    /\ [](\A p \in Procs : \A key \in Keys :
            (SearchReturned(p) /\ Removed(key)) =>
                key \notin ListKeys(loc[p].result.list))
    /\ [][\A p \in Procs :
            Removes(p) =>
                IF loc'[p].result = OkOk
                THEN op[p].key \notin Live(idx')
                ELSE /\ loc'[p].result = ErrorTerm("Remove failed")
                     /\ idx' = idx]_vars

\* A key was added and removed, and a search for one neighbour, made while
\* the key is still marked in the engine, finds nothing.
WitnessC12 ==
    \E p \in Procs : \E key \in Keys :
        /\ Removed(key)
        /\ key \in idx.tomb
        /\ SearchReturned(p)
        /\ op[p].k >= 1
        /\ loc[p].result.list = <<>>


\* hnsw_save has its file written in this step.
Saves(p) == pc[p] = "body" /\ op[p].kind = "save" /\ loc'[p].result = OkOk

TopKNames == {"top_k_similar", "top_k_similar_int8", "top_k_hamming"}
TopKReturned == nif.name \in TopKNames /\ ret.tag = "ok"

ValidCorpus ==
    /\ nif.a # <<>>
    /\ nif.corpus # <<>>
    /\ \A i \in DOMAIN nif.corpus : Len(nif.corpus[i]) = Len(nif.a)

\* The score the kernel of the NIF gives corpus entry i (1-based).
ScoreOf(i) ==
    CASE nif.name = "top_k_similar" -> simd_cosine(nif.a, nif.corpus[i])
      [] nif.name = "top_k_similar_int8" -> int8_cosine(nif.a, nif.corpus[i])
      [] OTHER -> hamming(nif.corpus[i], nif.a)

\* x is a better score than y: larger for similarity, smaller for distance.
Better(x, y) == IF nif.name = "top_k_hamming" THEN x < y ELSE Greater(x, y)

BatchNames ==
    {"batch_similarity", "batch_similarity_int8", "batch_hamming_distance"}
PairNames == {"cosine_similarity", "cosine_similarity_int8", "hamming_distance"}

\* What the kernel of a batch NIF gives the query and corpus entry i.
PairOf(i) ==
    CASE nif.name = "batch_similarity" -> simd_cosine(nif.a, nif.corpus[i])
      [] nif.name = "batch_similarity_int8" ->
            int8_cosine(nif.a, nif.corpus[i])
      [] OTHER -> hamming(nif.corpus[i], nif.a)

\* C16: the list a batch NIF returns is as long as the corpus and has at
\* place i the result for corpus entry i, in whatever order the workers
\* got the entries done.
TheoremC16 ==
    (nif.name \in BatchNames /\ ret.tag = "ok") =>
        /\ nif.order \in Orders(Len(nif.corpus))
        /\ Len(ret.list) = Len(nif.corpus)
        /\ \A i \in DOMAIN nif.corpus : ret.list[i] = PairOf(i)

\* The last of three entries was done first and the first one last, and
\* their results differ.
WitnessC16 ==
    /\ nif.name \in BatchNames
    /\ ret.tag = "ok"
    /\ nif.order = <<3, 2, 1>>
    /\ ret.list[1] # ret.list[3]
    /\ ret.list[1] = PairOf(1)

\* C17: the NIFs that take two vectors return EmptyVector when one of them
\* is empty and DimensionMismatch when both are not and their lengths
\* differ; the batch NIFs return EmptyVector for an empty query, EmptyCorpus
\* for an empty corpus, and DimensionMismatch when an entry at any place
\* has not the length of the query, each check made only when the ones
\* before it passed.  An error term carries no result and no worker has
\* run; a call that passes every check returns a result.
TheoremC17 ==
    /\ nif.name \in PairNames =>
          IF nif.a = <<>> \/ nif.b = <<>> THEN ret = EmptyVector
          ELSE IF Len(nif.a) # Len(nif.b) THEN ret = DimensionMismatch
          ELSE ret.tag = "ok"
    /\ nif.name \in BatchNames =>
          /\ IF nif.a = <<>> THEN ret = EmptyVector
             ELSE IF nif.corpus = <<>> THEN ret = EmptyCorpus
             ELSE IF \E i \in DOMAIN nif.corpus :
                        Len(nif.corpus[i]) # Len(nif.a)
                  THEN ret = DimensionMismatch
             ELSE ret.tag = "ok"
          /\ ret.tag = "error" => ret.list = <<>> /\ nif.order = <<>>

\* Only the last of three entries has another length than the query.
WitnessC17 ==
    /\ nif.name \in BatchNames
    /\ Len(nif.corpus) = 3
    /\ Len(nif.corpus[1]) = Len(nif.a)
    /\ Len(nif.corpus[2]) = Len(nif.a)
    /\ Len(nif.corpus[3]) # Len(nif.a)
    /\ ret = DimensionMismatch


Abs(x) == IF x >= 0 THEN x ELSE -x

\* dequantize_int8 has returned for what quantize_int8 made of a vector.
RoundTripped ==
    /\ nif.name = "dequantize_int8"
    /\ nif.corpus # <<>>
    /\ ret.tag = "ok"

\* C18: every element of dequantizeInt8(quantizeInt8(v)) is within scale/2
\* of the element of v it stands for, with scale = (max(v) - min(v)) / 255,
\* or 1 for a constant v.
OriginalC18 ==
    RoundTripped =>
        LET v == nif.corpus[1]
            scale == nif.b[1]
        IN  /\ scale = scale_of(max_val(v) - min_val(v))
            /\ Len(ret.list) = Len(v)
            /\ \A i \in DOMAIN v :
                  2 * scale.d * Abs(ret.list[i].n - v[i] * ret.list[i].d)
                      <= scale.n * ret.list[i].d

\* round(n / d) for n >= 0: to the nearest integer, halves away from zero.
Round(n, d) == (2 * n + d) \div (2 * d)

\* C19: quantizeInt8 returns offset = min(v), scale = (max(v) - min(v)) / 255
\* (1 when the range is 0) and for each element the byte of
\* clamp(round((v[i] - offset) / scale) - 128, -128, 127), so that min(v)
\* becomes -128 and, when the range is not 0, max(v) becomes 127.
OriginalC19 ==
    (nif.name = "quantize_int8" /\ nif.a # <<>>) =>
        LET v == nif.a
            offset == min_val(v)
            scale == scale_of(max_val(v) - offset)
            byte(x) == as_u8(Max(-128, Min(127,
                          Round((x - offset) * scale.d, scale.n) - 128)))
        IN  /\ ret.tag = "ok"
            /\ ret.list[2] = scale
            /\ ret.list[3] = offset
            /\ \A i \in DOMAIN v : ret.list[1][i] = byte(v[i])
            /\ \A i \in DOMAIN v :
                  /\ v[i] = offset => as_i8(ret.list[1][i]) = -128
                  /\ (v[i] = max_val(v) /\ v[i] # offset) =>
                        as_i8(ret.list[1][i]) = 127


BinaryNames == {"to_binary", "int8_to_binary"}

\* Dimension i (0-based) of the input of the NIF is not negative; the byte
\* of an int8 input is read as a two's-complement value.
NonNegative(i) ==
    IF nif.name = "to_binary" THEN nif.a[i + 1] >= 0
    ELSE nif.a[i + 1] < 128

\* Bit j, counted from the least significant one, of byte b (0-based) of the
\* returned binary.
BitAt(b, j) == (ret.list[b + 1] \div 2^j) % 2

\* C20: for a non-empty input of D dimensions to_binary and int8_to_binary
\* return ceil(D / 8) bytes; bit i mod 8 of byte floor(i / 8) is 1 exactly
\* when dimension i is >= 0, and every bit at a place >= D is 0.
TheoremC20 ==
    (nif.name \in BinaryNames /\ nif.a # <<>>) =>
        LET D == Len(nif.a)
            bytes == IF D % 8 = 0 THEN D \div 8 ELSE D \div 8 + 1
        IN  /\ ret.tag = "ok"
            /\ Len(ret.list) = bytes
            /\ \A b \in 0..(bytes - 1) : ret.list[b + 1] \in 0..255
            /\ \A i \in 0..(8 * bytes - 1) :
                  BitAt(i \div 8, i % 8) = 1 <=> (i < D /\ NonNegative(i))

\* Nine dimensions: the signs alternate in the first byte (85, as in
\* test_binary_conversion_mixed), the ninth is a zero and sets the lowest
\* bit of a second byte whose other bits are padding.
WitnessC20 ==
    /\ nif.name \in BinaryNames
    /\ Len(nif.a) = 9
    /\ nif.a[9] = 0
    /\ ret.list = <<85, 1>>


\* The bit positions, as pairs of a byte's place and a bit's place in it,
\* at which two byte sequences of one length differ.
Differing(a, b) ==
    {pos \in (DOMAIN a) \X (0..7) :
        (a[pos[1]] \div 2^pos[2]) % 2 # (b[pos[1]] \div 2^pos[2]) % 2}

\* C21: for two non-empty byte sequences of one length hamming_distance
\* returns the number of bit positions at which they differ; that number
\* is 0 exactly when they are equal, is what the call with the arguments
\* swapped returns, and is 8 times the length when each byte of one is the
\* bitwise complement of the byte of the other.
TheoremC21 ==
    (nif.name = "hamming_distance" /\ nif.a # <<>>
        /\ Len(nif.a) = Len(nif.b)) =>
        /\ ret = OkCount(Cardinality(Differing(nif.a, nif.b)))
        /\ ret.n = 0 <=> nif.a = nif.b
        /\ ret = pair_term(nif.b, nif.a, OkCount(hamming(nif.b, nif.a)))
        /\ (\A i \in DOMAIN nif.a : nif.b[i] = 255 - nif.a[i]) =>
              ret.n = 8 * Len(nif.a)

\* Two bytes and their complements: all sixteen bits differ.
WitnessC21 ==
    /\ nif.name = "hamming_distance"
    /\ nif.a = <<1, 254>>
    /\ nif.b = <<254, 1>>
    /\ ret = OkCount(16)


\* C22: hamming_to_similarity returns EmptyVector when total_bits is 0 and
\* otherwise 1 - distance / total_bits, which lies in [0, 1] whatever the
\* distance and the total_bits > 0 it was given.
OriginalC22 ==
    nif.name = "hamming_to_similarity" =>
        LET distance == nif.a[1]
            total_bits == nif.a[2]
        IN  IF total_bits = 0 THEN ret = EmptyVector
            ELSE /\ ret = OkScore(Fraction(total_bits - distance, total_bits))
                 /\ ret.list[1].n >= 0
                 /\ ret.list[1].n <= ret.list[1].d


\* Every element of the vector is zero; a byte 0 is the i8 zero.
AllZero(v) == \A i \in DOMAIN v : v[i] = 0

\* C23: cosine_similarity and cosine_similarity_int8 return exactly 0 when
\* one of their two non-empty inputs of one length has only zeros, and
\* normalize_vector returns an input of only zeros as it was given.
OriginalC23 ==
    /\ (nif.name \in {"cosine_similarity", "cosine_similarity_int8"}
          /\ nif.a # <<>> /\ Len(nif.a) = Len(nif.b)
          /\ (AllZero(nif.a) \/ AllZero(nif.b))) =>
            ret = OkScore(Ratio(0, 1))
    /\ (nif.name = "normalize_vector" /\ nif.a # <<>> /\ AllZero(nif.a)) =>
            ret = OkList([i \in DOMAIN nif.a |-> Ratio(nif.a[i], 1)])


\* The elements of the inputs of a cosine NIF as numbers: the bytes of the
\* int8 tier are read as i8.
Elements(v) ==
    IF nif.name = "cosine_similarity_int8"
    THEN [i \in DOMAIN v |-> as_i8(v[i])]
    ELSE v

\* The score n / sqrt(d) is the number x, one of -1, 0 and 1.
ScoreIs(score, x) ==
    /\ score.d > 0
    /\ IF x = 0 THEN score.n = 0
       ELSE score.n * x > 0 /\ score.n * score.n = score.d

\* C24: cosine_similarity returns 1 for a vector that is not zero and
\* itself, -1 for it and its negation, and 0 for two vectors that are not
\* zero and orthogonal, whatever the length; cosine_similarity_int8
\* returns 1 for a vector that is not zero and itself and 0 for two that
\* are orthogonal.
OriginalC24 ==
    (nif.name \in {"cosine_similarity", "cosine_similarity_int8"}
        /\ nif.a # <<>> /\ Len(nif.a) = Len(nif.b)
        /\ ~AllZero(nif.a) /\ ~AllZero(nif.b)) =>
        LET a == Elements(nif.a)
            b == Elements(nif.b)
        IN  /\ ret.tag = "ok"
            /\ a = b => ScoreIs(ret.list[1], 1)
            /\ (nif.name = "cosine_similarity"
                  /\ \A i \in DOMAIN a : b[i] = -a[i]) =>
                    ScoreIs(ret.list[1], -1)
            /\ sum_products(a, b) = 0 => ScoreIs(ret.list[1], 0)


\* C25: while a shared-access operation holds the index, which is the only
\* time it reads it, every addBatch under way has inserted nothing yet: it
\* holds no lock and either waits for the index or was refused at its
\* entry.  An addBatch that holds the index has it to itself from its first
\* insertion to its return, and a size that is returned is the size of the
\* index as it is.
TheoremC25 ==
    /\ \A p, q \in Procs :
          (op[p].kind \in SharedOps /\ Holding(p)
           /\ op[q].kind = "add_batch") =>
              /\ ~Holding(q)
              /\ pc[q] \in {"lock", "ret"}
              /\ loc[q].tried = <<>>
              /\ loc[q].added = 0
    /\ \A q \in Procs :
          (op[q].kind = "add_batch" /\ loc[q].tried # <<>>) =>
              /\ Holding(q)
              /\ index_lock.writers = {q}
              /\ index_lock.readers = {}
    /\ \A p \in Procs :
          (Returning(p, "size") /\ Holding(p)) =>
              Result(p) = OkCount(idx_size(idx))

\* A size read after a batch of two returns 2 while a second batch waits
\* for the index; it never saw the size 1.
WitnessC25 ==
    \E p, q \in Procs :
        /\ returned = << <<"add_batch", 0, 2>> >>
        /\ Returning(p, "size") /\ Holding(p)
        /\ Result(p) = OkCount(2)
        /\ op[q].kind = "add_batch" /\ pc[q] = "lock"


\* A stats call that is reading the index or is about to return what it
\* read.
StatsAtWork(p) ==
    /\ op[p].kind = "stats"
    /\ pc[p] = "body" \/ (pc[p] = "ret" /\ Result(p).tag = "ok")

\* size, capacity, dimensions and memory_usage of the index as it is.
StatsNow == <<idx_size(idx), idx_capacity(idx), dimensions,
              idx_memory_usage(idx)>>

\* C26: a stats call reads size, capacity and memory usage under one shared
\* guard: while it is at work no step changes the index or the dimension,
\* the values it has read so far are those of the index as it is, and the
\* term it returns holds the four values of that one state, the dimensions
\* entry being the dimension of the handle.
TheoremC26 ==
    /\ [](\A p \in Procs :
            StatsAtWork(p) =>
                /\ p \in index_lock.readers
                /\ index_lock.writers = {}
                /\ \A j \in 1..Len(loc[p].snap) :
                      loc[p].snap[j] = StatsNow[j]
                /\ pc[p] = "ret" =>
                      /\ Result(p) = OkStats(StatsNow)
                      /\ Result(p).list[3] = Dim)
    /\ [][(\E p \in Procs : StatsAtWork(p)) =>
            UNCHANGED <<idx, dimensions>>]_vars

\* A stats call returns the values of an index of one key while a writer
\* waits for the index.
WitnessC26 ==
    \E p, q \in Procs :
        /\ StatsAtWork(p) /\ pc[p] = "ret"
        /\ Result(p).list[1] = 1
        /\ Result(p).list[4] > Result(p).list[1]
        /\ pc[q] = "lock" /\ LockMode(op[q].kind) = "write"


\* C27: every operation that was started comes to its end: whatever it
\* waits for it gets, and it leaves its NIF.  The built-flag lock is free whenever an addBatch that holds
\* the index is about to ask for it, and only a holder of the index write
\* lock ever holds it.
TheoremC27 ==
    /\ [](\A p \in Procs :
            /\ (op[p].kind = "add_batch" /\ pc[p] = "body") =>
                  write_available(built_lock)
            /\ Holds(built_lock, p) =>
                  (p \in index_lock.writers /\ op[p].kind = "add_batch"))
    /\ \A p \in Procs : (pc[p] # "idle") ~> (pc[p] = "idle")

\* An addBatch holds the index write lock and the built-flag lock while the
\* two other callers wait for the index, one to write and one to read.
WitnessC27 ==
    \E p, q, r \in Procs :
        /\ pc[p] = "mark" /\ Holds(built_lock, p) /\ p \in index_lock.writers
        /\ pc[q] = "lock" /\ LockMode(op[q].kind) = "write"
        /\ pc[r] = "lock" /\ LockMode(op[r].kind) = "read"


\* C28: the dimension of the handle is the one it was made with and no step
\* changes it; every vector in the index, and every vector of an index that
\* was saved, has exactly that length; a step that brings a key into the
\* index brings it with a vector of that length, and the vectors of the
\* keys that stay are left as they are.
TheoremC28 ==
    /\ [](/\ dimensions = Dim
          /\ \A key \in Live(idx) : Len(idx.vecs[key]) = dimensions
          /\ disk.exists =>
                /\ disk.dimensions = dimensions
                /\ \A key \in Live(disk.ix) :
                      Len(disk.ix.vecs[key]) = dimensions)
    /\ [][/\ dimensions' = dimensions
          /\ \A key \in Live(idx') :
                IF key \in Live(idx)
                THEN idx'.vecs[key] = idx.vecs[key]
                ELSE Len(idx'.vecs[key]) = dimensions]_vars

\* An add and an addBatch have put a key each into the index, and a call
\* with a vector of another length is being refused.
WitnessC28 ==
    /\ idx_size(idx) = 2
    /\ Len(returned) = 2
    /\ returned[1][1] # returned[2][1]
    /\ {returned[1][1], returned[2][1]} = {"add", "add_batch"}
    /\ \E p \in Procs : pc[p] = "ret" /\ Result(p) = DimensionMismatch


\* What the batch NIF of the tier of the top-k NIF called returns for the
\* same query and corpus, when its workers finish in the given order.
BatchOf(order) ==
    batch_term(nif.a, nif.corpus,
               [i \in DOMAIN nif.corpus |-> ScoreOf(i)], order)

\* C29: every pair a top-k NIF returns has an index from 0 to n - 1, no
\* index is returned twice, and the score of a pair is the element at its
\* index (0-based) of the list the batch NIF of the same tier returns for
\* the same query and corpus, in whatever order the workers of the batch
\* finish.
TheoremC29 ==
    TopKReturned =>
        \A order \in Orders(Len(nif.corpus)) :
            LET l == ret.list
                batch == BatchOf(order)
            IN  /\ batch.tag = "ok"
                /\ Len(batch.list) = Len(nif.corpus)
                /\ \A a \in DOMAIN l :
                      /\ l[a][1] \in 0..(Len(nif.corpus) - 1)
                      /\ l[a][2] = batch.list[l[a][1] + 1]
                /\ \A a, b \in DOMAIN l : a # b => l[a][1] # l[b][1]

\* Two pairs are returned out of the order of the corpus: the first has
\* the larger index, and the batch has differing scores at the two.
WitnessC29 ==
    /\ TopKReturned
    /\ Len(ret.list) = 2
    /\ ret.list[1][1] > ret.list[2][1]
    /\ ret.list[1][2] # ret.list[2][2]
    /\ \E order \in Orders(Len(nif.corpus)) :
          /\ order[1] # 1
          /\ BatchOf(order).list[ret.list[1][1] + 1] = ret.list[1][2]


\* A vector that is shorter than the index dimension.
Short == [i \in 1..(Dim - 1) |-> 1]

\* The call of p is one that was let through to the index lock.
PastChecks(p) == pc[p] \notin {"idle", "ret"}

\* C30: add, addBatch and search look at the lengths before they ask for
\* the index lock.  A call with a vector of the wrong length can be made
\* and can return whatever the state of the lock, also while another caller
\* holds it as writer; a call that is not ended with DimensionMismatch by
\* its first step has no vector of a wrong length; a refused call never
\* asks for the lock or holds it, and neither of its two steps changes a
\* lock, so no other caller waits for it.
TheoremC30 ==
    /\ [](\A p \in Procs :
            /\ (pc[p] = "idle" /\ calls < MaxCalls) =>
                  /\ ENABLED hnsw_add_call(p, 1, Short)
                  /\ ENABLED hnsw_add_batch_call(p, <<<<1, Short>>>>)
                  /\ ENABLED hnsw_search_call(p, Short, 1)
            /\ pc[p] = "ret" => ENABLED Return(p)
            /\ (pc[p] = "ret" /\ Result(p) = DimensionMismatch) =>
                  ~Holding(p) /\ ~Holds(built_lock, p)
            /\ (PastChecks(p) /\ op[p].kind \in {"add", "search"}) =>
                  Len(op[p].vector) = dimensions
            /\ (PastChecks(p) /\ op[p].kind = "add_batch") =>
                  WrongDimension(op[p].entries) = {})
    /\ [][\A p \in Procs :
            /\ (Enters(p, "add") /\ ~Refused(p)) =>
                  \A key \in Keys, vector \in Vectors :
                      hnsw_add_call(p, key, vector) =>
                          Len(vector) = dimensions
            /\ (Enters(p, "add_batch") /\ ~Refused(p)) =>
                  \A entries \in Batches :
                      hnsw_add_batch_call(p, entries) =>
                          WrongDimension(entries) = {}
            /\ (Enters(p, "search") /\ ~Refused(p)) =>
                  \A query \in Vectors, k \in 0..MaxK :
                      hnsw_search_call(p, query, k) =>
                          Len(query) = dimensions
            /\ (/\ pc[p] = "ret"
                /\ op[p].kind \in {"add", "add_batch", "search"}
                /\ Result(p) = DimensionMismatch
                /\ pc'[p] = "idle") =>
                      UNCHANGED <<idx, is_built, index_lock, built_lock>>]_vars

\* An addBatch is being refused for the length of a vector while another
\* caller holds the index lock as writer and a third waits for the lock.
WitnessC30 ==
    \E p, q, r \in Procs :
        /\ Returning(p, "add_batch") /\ Result(p) = DimensionMismatch
        /\ q \in index_lock.writers /\ pc[q] = "body"
        /\ pc[r] = "lock"

=============================================================================
